---- MODULE Spec2Model ----
(***************************************************************************)
(* Streaming bridge of the AI SEO analyzer:                                *)
(*   - the gateway endpoint   src/app/api/analyze/route.ts                 *)
(*     (process realization, lines 10-86; service realization, 145-183),   *)
(*   - the client stream reducer   src/hooks/useAnalysis.ts.               *)
(*                                                                         *)
(* Text is a sequence of one-character strings.  On the wire a text is a   *)
(* sequence of bytes; the alphabet is                                      *)
(*   "N"  line feed               "S"  space                               *)
(*   "D"  the prefix `data: `     "!"  the text `[DONE]`                   *)
(*   "{" k "}"  a JSON object, k one letter naming its members (Kinds)     *)
(*   "0"  the JSON text `null`    "X"  text that is not JSON               *)
(*   "L" "T"  the two bytes of one non-ASCII character, decoded "U"        *)
(*   "?"  U+FFFD, the replacement character                                *)
(***************************************************************************)
EXTENDS Integers, Sequences, FiniteSets, TLC

VARIABLES
    \* ---- client session (useAnalysis) ----
    state,          \* AnalysisState
    abortRef,       \* abortRef.current: 0 is null, else the job whose controller it is
    aborted,        \* jobs whose AbortController has been aborted
    pc,             \* where each analyze() invocation stands
    body,           \* the bytes of the response body of each job (session model)
    rpos,           \* how many bytes of its response body each job has read
    decoder,        \* the TextDecoder's pending bytes, per job
    sseBuffer,      \* sseBuffer, per job
    \* ---- gateway, one request (route.ts) ----
    realization,    \* which POST handler is deployed
    req,            \* the request body
    resp,           \* the response returned by POST
    child,          \* the spawned worker process
    script,         \* the bytes the worker writes to stdout before it ends
    wpos,           \* how many of them have been delivered in 'data' events
    buffer,         \* buffer, the gateway's leftover line
    written,        \* the chunks accepted by controller.enqueue, in order
    ctrl,           \* the ReadableStream controller
    uncaught,       \* a handler ended in an uncaught exception
    upstream,       \* the service realization's upstream call
    \* ---- the two decoders alone ----
    cInput,         \* the frames under test
    gwPos, gwBuffer, gwFrames,
    rdPos, rdDecoder, rdBuffer, rdFrames,
    \* ---- stageLabel alone ----
    labelStep       \* the ProgressStep being built: stage, detail, label

sessionVars == <<state, abortRef, aborted, pc, body, rpos, decoder, sseBuffer>>
gatewayVars == <<realization, req, resp, child, script, wpos, buffer, written,
                 ctrl, uncaught, upstream>>
codecVars == <<cInput, gwPos, gwBuffer, gwFrames, rdPos, rdDecoder, rdBuffer, rdFrames,
               labelStep>>
vars == <<sessionVars, gatewayVars, codecVars>>

\* ------------------------------------------------------------------ bounds
MaxJobs == 2
MaxFrames == 2
MaxEvents == 3

\* ------------------------------------------------------------ text helpers
Last(s) == s[Len(s)]
Front(s) == SubSeq(s, 1, Len(s) - 1)
Drop(s, n) == SubSeq(s, n + 1, Len(s))

RECURSIVE Flat(_)
Flat(ss) == IF ss = <<>> THEN <<>> ELSE Head(ss) \o Flat(Tail(ss))

IsSpace(c) == c \in {"S", "N"}

RECURSIVE TrimStart(_)
TrimStart(s) == IF s # <<>> /\ IsSpace(Head(s)) THEN TrimStart(Tail(s)) ELSE s

RECURSIVE TrimEnd(_)
TrimEnd(s) == IF s # <<>> /\ IsSpace(Last(s)) THEN TrimEnd(Front(s)) ELSE s

\* String.prototype.trim
Trim(s) == TrimEnd(TrimStart(s))

\* String.prototype.split("\n"): k separators give k+1 segments
RECURSIVE SplitFrom(_, _)
SplitFrom(s, cur) ==
    IF s = <<>> THEN <<cur>>
    ELSE IF Head(s) = "N" THEN <<cur>> \o SplitFrom(Tail(s), <<>>)
    ELSE SplitFrom(Tail(s), Append(cur, Head(s)))

SplitLines(s) == SplitFrom(s, <<>>)

\* String.prototype.split("\n\n"): leftmost matches, not overlapping
RECURSIVE SplitBlankFrom(_, _)
SplitBlankFrom(s, cur) ==
    IF s = <<>> THEN <<cur>>
    ELSE IF Len(s) >= 2 /\ s[1] = "N" /\ s[2] = "N"
         THEN <<cur>> \o SplitBlankFrom(Drop(s, 2), <<>>)
    ELSE SplitBlankFrom(Tail(s), Append(cur, Head(s)))

SplitBlank(s) == SplitBlankFrom(s, <<>>)

\* ------------------------------------------------------------- conversions
\* Buffer.prototype.toString(): UTF-8 decoding of one chunk on its own; a lead
\* byte without its trail byte, and a trail byte without its lead byte, each
\* decode to U+FFFD.
RECURSIVE BufferToString(_)
BufferToString(b) ==
    IF b = <<>> THEN <<>>
    ELSE IF Head(b) = "L" /\ Len(b) >= 2 /\ b[2] = "T"
         THEN <<"U">> \o BufferToString(Drop(b, 2))
    ELSE IF Head(b) \in {"L", "T"} THEN <<"?">> \o BufferToString(Tail(b))
    ELSE <<Head(b)>> \o BufferToString(Tail(b))

\* TextDecoder.decode(value, {stream: true}): an incomplete character at the
\* end of the chunk is kept for the next call.
DecodeKeepingTail(pending, value) ==
    LET b == pending \o value IN
    IF b # <<>> /\ Last(b) = "L"
    THEN [text |-> BufferToString(Front(b)), pending |-> <<"L">>]
    ELSE [text |-> BufferToString(b), pending |-> <<>>]

TextDecode(pending, value) == DecodeKeepingTail(pending, value)

\* TextEncoder.encode
RECURSIVE TextEncode(_)
TextEncode(s) ==
    IF s = <<>> THEN <<>>
    ELSE (IF Head(s) = "U" THEN <<"L", "T">> ELSE <<Head(s)>>) \o TextEncode(Tail(s))

\* ----------------------------------------------------------------- JSON
\* the members of the objects the model knows
Kinds == {"p", "g", "r", "e", "u", "z", "s", "v", "w"}

\* JSON.parse(s) does not throw
IsJSON(s) ==
    \/ s = <<"0">>
    \/ /\ Len(s) >= 3
       /\ s[1] = "{"
       /\ s[2] \in Kinds
       /\ Last(s) = "}"
       /\ \A i \in 3..(Len(s) - 1) : s[i] \in {"U", "?"}

\* An optional member: <<>> when absent, <<v>> when present.
Absent == <<>>
Some(v) == <<v>>

\* JSON.parse(s) for s with IsJSON(s); isNull: the value null
JSONParse(s) ==
    LET k == IF Len(s) >= 2 THEN s[2] ELSE "0"
        text == IF Len(s) >= 3 THEN SubSeq(s, 3, Len(s) - 1) ELSE <<>>
        obj(type, stage, detail, data, message) ==
            [isNull |-> FALSE, type |-> type, stage |-> stage, detail |-> detail,
             data |-> data, message |-> message] IN
    CASE k = "p" -> obj("progress", Some("domain"), Absent, Absent, Absent)
      [] k = "g" -> obj("progress", Some("page"), Some(text), Absent, Absent)
      [] k = "r" -> obj("result", Absent, Absent, Some(<<"report">> \o text), Absent)
      [] k = "e" -> obj("error", Absent, Absent, Absent, Some(<<"worker failed">> \o text))
      [] k = "u" -> obj("log", Absent, Absent, Absent, Absent)
      [] k = "z" -> obj("result", Absent, Absent, Absent, Absent)
      [] k = "s" -> obj("error", Absent, Absent, Absent, Some(<<"spawn ENOENT">>))
      [] k = "v" -> obj("error", Absent, Absent, Absent,
                        Some(<<"Analysis service unavailable">>))
      [] k = "w" -> obj("error", Absent, Absent, Absent, Some(<<"Service error: 500">>))
      [] OTHER   -> [isNull |-> TRUE, type |-> "", stage |-> Absent, detail |-> Absent,
                     data |-> Absent, message |-> Absent]

\* ------------------------------------------------- gateway: stdout decoder
\* route.ts 44 and 60-62: encoder.encode(`data: ${trimmed}\n\n`)
Frame(payload) == TextEncode(<<"D">> \o payload \o <<"N", "N">>)

\* the loop without the JSON.parse guard
RECURSIVE FramesOfLinesUnchecked(_)
FramesOfLinesUnchecked(lines) ==
    IF lines = <<>> THEN <<>>
    ELSE LET trimmed == Trim(Head(lines)) IN
         (IF trimmed # <<>> THEN <<Frame(trimmed)>> ELSE <<>>)
         \o FramesOfLinesUnchecked(Tail(lines))

\* route.ts 39-48: the loop over the complete lines
RECURSIVE FramesOfLines(_)
FramesOfLines(lines) ==
    IF lines = <<>> THEN <<>>
    ELSE LET trimmed == Trim(Head(lines)) IN
         (IF trimmed # <<>> /\ IsJSON(trimmed) THEN <<Frame(trimmed)>> ELSE <<>>)
         \o FramesOfLines(Tail(lines))

\* the leftover the 'data' handler keeps: lines.pop()
LeftoverLast(lines) == Last(lines)
LeftoverNone(lines) == <<>>
Leftover(lines) == LeftoverLast(lines)

\* child.stdout.on("data"), route.ts 34-49, without the enqueue's outcome:
\* the frames it tries to enqueue and the buffer it leaves
OnData(buf, chunk) ==
    LET lines == SplitLines(buf \o BufferToString(chunk)) IN
    [frames |-> FramesOfLines(Front(lines)), buffer |-> Leftover(lines)]

\* --------------------------------------------------- reducer: SSE decoder
\* useAnalysis.ts 78-82: the payload of one part, <<>> when it has no data line
RECURSIVE DataLine(_)
DataLine(lines) ==
    IF lines = <<>> THEN <<>>
    ELSE IF Head(lines) # <<>> /\ Head(Head(lines)) = "D" THEN Head(lines)
    ELSE DataLine(Tail(lines))

HasDataLine(part) == DataLine(SplitLines(part)) # <<>>
Raw(part) == Trim(Tail(DataLine(SplitLines(part))))

\* useAnalysis.ts 73-75
SseDecode(pending, buf, value) ==
    LET d == TextDecode(pending, value)
        parts == SplitBlank(buf \o d.text) IN
    [parts |-> Front(parts), buffer |-> Last(parts), pending |-> d.pending]

RECURSIVE RawsOf(_)
RawsOf(parts) ==
    IF parts = <<>> THEN <<>>
    ELSE (IF HasDataLine(Head(parts)) THEN <<Raw(Head(parts))>> ELSE <<>>)
         \o RawsOf(Tail(parts))

\* ------------------------------------------------------ reducer: the state
Jobs == 1..MaxJobs

\* useAnalysis.ts 10-25 (texts are sequences: the phrase, then the detail)
STAGE_LABELS ==
    [domain |-> "Checking domain strategy",
     robots |-> "Fetching robots.txt",
     sitemap |-> "Fetching sitemap.xml",
     agent_files |-> "Checking AI agent files (llms.txt)",
     page |-> "Analyzing page",
     internal_links |-> "Analyzing internal link structure",
     complete |-> "Finalizing results"]

\* STAGE_LABELS is an object literal: a key it does not have itself is looked
\* up in Object.prototype, and these names are found there
ObjectPrototype == {"constructor", "toString", "valueOf", "hasOwnProperty"}

\* STAGE_LABELS[stage] ?? stage; an inherited member is a function, no string
Lookup(stage) ==
    IF stage \in DOMAIN STAGE_LABELS THEN <<STAGE_LABELS[stage]>>
    ELSE IF stage \in ObjectPrototype THEN <<"function", stage>>
    ELSE <<stage>>

Http == <<"h", "t", "t", "p", ":", "/", "/">>
Https == <<"h", "t", "t", "p", "s", ":", "/", "/">>
StartsWith(s, p) == Len(p) <= Len(s) /\ SubSeq(s, 1, Len(p)) = p

\* detail.replace(/^https?:\/\//, "")
StripScheme(s) ==
    IF StartsWith(s, Https) THEN Drop(s, Len(Https))
    ELSE IF StartsWith(s, Http) THEN Drop(s, Len(Http))
    ELSE s

\* String.prototype.slice(0, n)
LabelMax == 55
Slice(s, n) == IF Len(s) <= n THEN s ELSE SubSeq(s, 1, n)

StageLabel(stage, detail) ==
    IF stage = "page" /\ detail # Absent /\ detail[1] # <<>>
    THEN <<"Analyzing: ">> \o Slice(StripScheme(detail[1]), LabelMax)
    ELSE Lookup(stage)

\* useAnalysis.ts 27-33
INITIAL_STATE ==
    [status |-> "idle", progressSteps |-> <<>>, currentStage |-> <<>>,
     result |-> Absent, error |-> Absent]

\* useAnalysis.ts 45-51
LoadingState ==
    [status |-> "loading", progressSteps |-> <<>>,
     currentStage |-> <<"Starting analysis...">>, result |-> Absent, error |-> Absent]

\* the progress branch keeping the latest step only
ApplyEventLatestOnly(prev, event) ==
    IF event.type = "progress" THEN
        LET stage == IF event.stage = Absent THEN "" ELSE event.stage[1]
            label == StageLabel(stage, event.detail)
            step == [stage |-> stage, detail |-> event.detail, label |-> label] IN
        [prev EXCEPT !.currentStage = label, !.progressSteps = <<step>>]
    ELSE prev

\* the result branch without its test of event.data
ApplyEventAnyResult(prev, event) ==
    IF event.type = "progress" THEN
        LET stage == IF event.stage = Absent THEN "" ELSE event.stage[1]
            label == StageLabel(stage, event.detail)
            step == [stage |-> stage, detail |-> event.detail, label |-> label] IN
        [prev EXCEPT !.currentStage = label,
                     !.progressSteps = Append(prev.progressSteps, step)]
    ELSE IF event.type = "result" THEN
        [prev EXCEPT !.status = "complete", !.result = event.data,
                     !.currentStage = <<"Complete">>]
    ELSE IF event.type = "error" THEN
        [prev EXCEPT !.status = "error",
                     !.error = IF event.message = Absent THEN Some(<<"Unknown error">>)
                               ELSE event.message]
    ELSE prev

\* useAnalysis.ts 98-122: one parsed event that is not null
ApplyEvent(prev, event) ==
    IF event.type = "progress" THEN
        LET stage == IF event.stage = Absent THEN "" ELSE event.stage[1]
            label == StageLabel(stage, event.detail)
            step == [stage |-> stage, detail |-> event.detail, label |-> label] IN
        [prev EXCEPT !.currentStage = label,
                     !.progressSteps = Append(prev.progressSteps, step)]
    ELSE IF event.type = "result" /\ event.data # Absent THEN
        [prev EXCEPT !.status = "complete", !.result = event.data,
                     !.currentStage = <<"Complete">>]
    ELSE IF event.type = "error" THEN
        [prev EXCEPT !.status = "error",
                     !.error = IF event.message = Absent THEN Some(<<"Unknown error">>)
                               ELSE event.message]
    ELSE prev

\* a catch that records nothing
CatchErrorSilent(prev, message) == prev

\* useAnalysis.ts 127-131
CatchError(prev, message) == [prev EXCEPT !.status = "error", !.error = Some(message)]

\* useAnalysis.ts 77-123: the for loop over the parts of one chunk; thrown is the
\* message of the exception that ended it, if one did (reading .type of null)
RECURSIVE ApplyParts(_, _)
ApplyParts(st, parts) ==
    IF parts = <<>> THEN [state |-> st, thrown |-> Absent]
    ELSE LET part == Head(parts) IN
         IF ~HasDataLine(part) THEN ApplyParts(st, Tail(parts))
         ELSE IF Raw(part) = <<"!">> THEN ApplyParts(st, Tail(parts))
         ELSE IF ~IsJSON(Raw(part)) THEN ApplyParts(st, Tail(parts))
         ELSE IF JSONParse(Raw(part)).isNull
              THEN [state |-> st, thrown |-> Some(<<"TypeError">>)]
         ELSE ApplyParts(ApplyEvent(st, JSONParse(Raw(part))), Tail(parts))

\* useAnalysis.ts 70-131: one chunk read by job j's loop, and the catch if the
\* loop throws
OnChunk(st, pending, buf, value) ==
    LET d == SseDecode(pending, buf, value)
        r == ApplyParts(st, d.parts) IN
    [state |-> IF r.thrown = Absent THEN r.state ELSE CatchError(r.state, r.thrown[1]),
     failed |-> r.thrown # Absent, buffer |-> d.buffer, pending |-> d.pending]

\* useAnalysis.ts 58: the fetch and its body are bound to the job's own signal,
\* so once it is aborted the pending fetch or read rejects with AbortError
SignalIgnored(j) == FALSE
SignalAborted(j) == j \in aborted

\* --------------------------------------------------- reducer: the session
Started == {j \in Jobs : pc[j] # "idle"}

\* useAnalysis.ts 65-67, 126, 131-133: analyze() returns, and the invocation's
\* response, reader, decoder and sseBuffer go with it
Release(j) ==
    /\ body' = [body EXCEPT ![j] = <<>>]
    /\ rpos' = [rpos EXCEPT ![j] = 0]
    /\ decoder' = [decoder EXCEPT ![j] = <<>>]
    /\ sseBuffer' = [sseBuffer EXCEPT ![j] = <<>>]

\* the stored controller left alone
AbortNone == aborted

\* abortRef.current.abort(), useAnalysis.ts 40-42 and 136-138
AbortCurrent == IF abortRef # 0 THEN aborted \cup {abortRef} ELSE aborted

\* analyze() that leaves the previous controller alone
AnalyzeCallNoAbort(j) ==
    /\ pc[j] = "idle"
    /\ \A i \in Jobs : i < j => pc[i] # "idle"
    /\ aborted' = aborted
    /\ abortRef' = j
    /\ state' = LoadingState
    /\ pc' = [pc EXCEPT ![j] = "fetch"]

\* analyze() that only sets the status
AnalyzeCallKeepsFields(j) ==
    /\ pc[j] = "idle"
    /\ \A i \in Jobs : i < j => pc[i] # "idle"
    /\ aborted' = AbortCurrent
    /\ abortRef' = j
    /\ state' = [state EXCEPT !.status = "loading"]
    /\ pc' = [pc EXCEPT ![j] = "fetch"]

\* useAnalysis.ts 39-59: analyze() up to the await of fetch
AnalyzeCall(j) ==
    /\ pc[j] = "idle"
    /\ \A i \in Jobs : i < j => pc[i] # "idle"
    /\ aborted' = AbortCurrent
    /\ abortRef' = j
    /\ state' = LoadingState
    /\ pc' = [pc EXCEPT ![j] = "fetch"]

\* reset() that only sets the status
ResetCallKeepsFields ==
    /\ aborted' = AbortCurrent
    /\ state' = [state EXCEPT !.status = "idle"]
    /\ UNCHANGED <<abortRef, pc>>

\* useAnalysis.ts 135-140
ResetCall ==
    /\ aborted' = AbortCurrent
    /\ state' = INITIAL_STATE
    /\ UNCHANGED <<abortRef, pc>>

\* the catch without its AbortError test
CancelledAsFailure(j) ==
    /\ pc[j] \in {"fetch", "read"}
    /\ SignalAborted(j)
    /\ pc' = [pc EXCEPT ![j] = "cancelled"]
    /\ state' = CatchError(state, <<"The operation was aborted.">>)
    /\ Release(j)
    /\ UNCHANGED <<abortRef, aborted>>

\* useAnalysis.ts 125-126: the await rejects with AbortError; return
Cancelled(j) ==
    /\ pc[j] \in {"fetch", "read"}
    /\ SignalAborted(j)
    /\ pc' = [pc EXCEPT ![j] = "cancelled"]
    /\ Release(j)
    /\ UNCHANGED <<state, abortRef, aborted>>

\* useAnalysis.ts 54-63, 127-131: fetch rejects (network), or the response is
\* not ok or has no body
FetchFailed(j, message) ==
    /\ pc[j] = "fetch"
    /\ ~SignalAborted(j)
    /\ state' = CatchError(state, message)
    /\ pc' = [pc EXCEPT ![j] = "failed"]
    /\ UNCHANGED <<abortRef, aborted>>

\* useAnalysis.ts 61-67: the response is ok and has a body
FetchOk(j) ==
    /\ pc[j] = "fetch"
    /\ ~SignalAborted(j)
    /\ pc' = [pc EXCEPT ![j] = "read"]
    /\ UNCHANGED <<state, abortRef, aborted>>

\* useAnalysis.ts 70-124: reader.read() gives a chunk, the first n bytes the
\* response still holds; if handling it throws, the catch ends the invocation
ReadValue(j, all, n) ==
    /\ pc[j] = "read"
    /\ ~SignalAborted(j)
    /\ LET r == OnChunk(state, decoder[j], sseBuffer[j],
                        SubSeq(all, rpos[j] + 1, rpos[j] + n)) IN
        /\ state' = r.state
        /\ IF r.failed
           THEN /\ pc' = [pc EXCEPT ![j] = "failed"]
                /\ Release(j)
           ELSE /\ pc' = pc
                /\ rpos' = [rpos EXCEPT ![j] = rpos[j] + n]
                /\ decoder' = [decoder EXCEPT ![j] = r.pending]
                /\ sseBuffer' = [sseBuffer EXCEPT ![j] = r.buffer]
                /\ body' = body
    /\ UNCHANGED <<abortRef, aborted>>

\* a loop end that still applies what sseBuffer holds
ReadDoneFlush(j) ==
    /\ pc[j] = "read"
    /\ ~SignalAborted(j)
    /\ state' = ApplyParts(state, <<sseBuffer[j]>>).state
    /\ pc' = [pc EXCEPT ![j] = "done"]
    /\ Release(j)
    /\ UNCHANGED <<abortRef, aborted>>

\* useAnalysis.ts 71: done
ReadDone(j) ==
    /\ pc[j] = "read"
    /\ ~SignalAborted(j)
    /\ pc' = [pc EXCEPT ![j] = "done"]
    /\ Release(j)
    /\ UNCHANGED <<state, abortRef, aborted>>

\* useAnalysis.ts 70, 127-131: reader.read() rejects (the connection broke)
ReadFailed(j) ==
    /\ pc[j] = "read"
    /\ ~SignalAborted(j)
    /\ state' = CatchError(state, <<"network error">>)
    /\ pc' = [pc EXCEPT ![j] = "failed"]
    /\ Release(j)
    /\ UNCHANGED <<abortRef, aborted>>

\* ------------------------------------------------ specification: session
\* One client session, any number of analyze() and reset() calls; what each
\* job's response carries is an input.
DoneFrame == Frame(<<"!">>)
Obj(k) == <<"{", k, "}">>

\* response bodies a gateway can send: progress, result, sentinel; an error
\* frame and the sentinel; progress frames cut off by the end of the stream;
\* the frame of a `null` line
SessionBodies ==
    { Flat(<<Frame(Obj("p")), Frame(Obj("r")), DoneFrame>>),
      Flat(<<Frame(Obj("e")), DoneFrame>>),
      Flat(<<Frame(Obj("g")), Frame(Obj("p"))>>),
      Frame(<<"0">>) }

IdleGateway ==
    /\ realization = "process"
    /\ req = [url |-> Absent, maxPages |-> Absent]
    /\ resp = "none"
    /\ child = "none"
    /\ script = <<>>
    /\ wpos = 0
    /\ buffer = <<>>
    /\ written = <<>>
    /\ ctrl = "none"
    /\ uncaught = FALSE
    /\ upstream = "none"

IdleCodec ==
    /\ cInput = <<>>
    /\ gwPos = 0 /\ gwBuffer = <<>> /\ gwFrames = <<>>
    /\ rdPos = 0 /\ rdDecoder = <<>> /\ rdBuffer = <<>> /\ rdFrames = <<>>
    /\ labelStep = [stage |-> "", detail |-> Absent, label |-> Absent]

IdleSession ==
    /\ state = INITIAL_STATE
    /\ abortRef = 0
    /\ aborted = {}
    /\ pc = [j \in Jobs |-> "idle"]
    /\ body = [j \in Jobs |-> <<>>]
    /\ rpos = [j \in Jobs |-> 0]
    /\ decoder = [j \in Jobs |-> <<>>]
    /\ sseBuffer = [j \in Jobs |-> <<>>]

Init == IdleSession /\ IdleGateway /\ IdleCodec

Analyze ==
    /\ \E j \in Jobs : AnalyzeCall(j)
    /\ UNCHANGED <<body, rpos, decoder, sseBuffer, gatewayVars, codecVars>>

Reset ==
    /\ ResetCall
    /\ UNCHANGED <<body, rpos, decoder, sseBuffer, gatewayVars, codecVars>>

AbortError ==
    /\ \E j \in Jobs : Cancelled(j)
    /\ UNCHANGED <<gatewayVars, codecVars>>

FetchRejects ==
    /\ \E j \in Jobs : FetchFailed(j, <<"Failed to fetch">>)
    /\ UNCHANGED <<body, rpos, decoder, sseBuffer, gatewayVars, codecVars>>

ResponseNotOk ==
    /\ \E j \in Jobs : FetchFailed(j, <<"HTTP 500">>)
    /\ UNCHANGED <<body, rpos, decoder, sseBuffer, gatewayVars, codecVars>>

ResponseOk ==
    /\ \E j \in Jobs, b \in SessionBodies :
          /\ FetchOk(j)
          /\ body' = [body EXCEPT ![j] = b]
    /\ UNCHANGED <<rpos, decoder, sseBuffer, gatewayVars, codecVars>>

ReadChunk ==
    /\ \E j \in Jobs :
          \E n \in 1..(Len(body[j]) - rpos[j]) : ReadValue(j, body[j], n)
    /\ UNCHANGED <<gatewayVars, codecVars>>

ReadEnd ==
    /\ \E j \in Jobs : rpos[j] = Len(body[j]) /\ ReadDone(j)
    /\ UNCHANGED <<gatewayVars, codecVars>>

ReadRejects ==
    /\ \E j \in Jobs : ReadFailed(j)
    /\ UNCHANGED <<gatewayVars, codecVars>>

Next ==
    \/ Analyze
    \/ Reset
    \/ AbortError
    \/ FetchRejects
    \/ ResponseNotOk
    \/ ResponseOk
    \/ ReadChunk
    \/ ReadEnd
    \/ ReadRejects

Spec == Init /\ [][Next]_vars

\* ------------------------------------------------------------ the gateway
\* route.ts 13, 148: !url
FalsyUnlessPresent(url) == url = Absent
Falsy(url) == url = Absent \/ url = Some(<<>>)

\* route.ts 72-73, 163-164, 170-171: the gateway's own error frames
SpawnErrorFrame == Frame(Obj("s"))
UnavailableBody == Frame(Obj("v")) \o DoneFrame
ServiceErrorBodyNoSentinel == Frame(Obj("w"))
ServiceErrorBody == Frame(Obj("w")) \o DoneFrame

\* what a worker may write to stdout before it ends
WorkerScripts ==
    { Obj("p") \o <<"N">> \o Obj("r") \o <<"N">>,
      Obj("p") \o <<"N", "X", "N">> \o Obj("g") \o <<"N">>,
      <<"S", "N">> \o Obj("p") \o <<"S", "N">> \o Obj("r"),
      Obj("e") \o <<"N", "{", "r">>,
      <<>> }

\* what the upstream service may answer with
GarbageFrame == <<"D", "X", "N", "N">>
\* a body whose last frame ends with one line feed, not with a blank line
UnterminatedBody == Flat(<<Frame(Obj("p")), <<"D">> \o Obj("r") \o <<"N">>>>)
UpstreamBodies ==
    { Flat(<<Frame(Obj("p")), Frame(Obj("r")), DoneFrame>>),
      Flat(<<Frame(Obj("p")), GarbageFrame, <<"S", "N", "N">>, Frame(Obj("g"))>>),
      UnterminatedBody }

\* controller.enqueue(chunk): accepted while the stream is readable; on a closed
\* or cancelled stream it throws
CanEnqueue == ctrl = "open"

\* route.ts 10-18 and 145-153: url missing or empty
PostRejected ==
    /\ resp = "none"
    /\ pc[1] = "fetch"
    /\ Falsy(req.url)
    /\ resp' = "400"
    /\ UNCHANGED <<sessionVars, codecVars, realization, req, child, script, wpos, buffer, written, ctrl,
                   uncaught, upstream>>

\* route.ts 20-30, 79-85: the stream is opened and the worker spawned; the
\* spawn may fail, which shows later, as the child's 'error' event
PostSpawn ==
    /\ realization = "process"
    /\ resp = "none"
    /\ pc[1] = "fetch"
    /\ ~Falsy(req.url)
    /\ resp' = "stream"
    /\ ctrl' = "open"
    /\ \/ \E w \in WorkerScripts : child' = "running" /\ script' = w
       \/ child' = "unspawned" /\ script' = <<>>
    /\ UNCHANGED <<sessionVars, codecVars, realization, req, wpos, buffer, written, uncaught, upstream>>

\* route.ts 155-174: the upstream call fails, or answers not ok
PostUpstreamFails ==
    /\ realization = "service"
    /\ resp = "none"
    /\ pc[1] = "fetch"
    /\ ~Falsy(req.url)
    /\ resp' = "stream"
    /\ ctrl' = "closed"
    /\ \/ upstream' = "unreachable" /\ written' = <<UnavailableBody>>
       \/ upstream' = "notok" /\ written' = <<ServiceErrorBody>>
    /\ UNCHANGED <<sessionVars, codecVars, realization, req, child, script, wpos, buffer, uncaught>>

\* route.ts 176-182: the upstream body becomes the response body
PostRelay ==
    /\ realization = "service"
    /\ resp = "none"
    /\ pc[1] = "fetch"
    /\ ~Falsy(req.url)
    /\ resp' = "stream"
    /\ ctrl' = "open"
    /\ upstream' = "open"
    /\ \E b \in UpstreamBodies : script' = b
    /\ UNCHANGED <<sessionVars, codecVars, realization, req, child, wpos, buffer, written, uncaught>>

\* route.ts 176: a chunk of the upstream body passes through (the bytes relayed
\* so far are kept as one chunk: the transport keeps no chunk boundaries)
RelayChunk ==
    /\ upstream = "open"
    /\ ctrl = "open"
    /\ \E n \in 1..(Len(script) - wpos) :
          /\ written' = <<SubSeq(script, 1, wpos + n)>>
          /\ wpos' = wpos + n
    /\ UNCHANGED <<sessionVars, codecVars, realization, req, resp, child, script, buffer, ctrl, uncaught,
                   upstream>>

\* route.ts 176: the upstream body ends
RelayEnd ==
    /\ upstream = "open"
    /\ ctrl = "open"
    /\ wpos = Len(script)
    /\ ctrl' = "closed"
    /\ upstream' = "ended"
    /\ UNCHANGED <<sessionVars, codecVars, realization, req, resp, child, script, wpos, buffer, written,
                   uncaught>>

\* route.ts 34-49: a 'data' event of the child's stdout.  Each enqueue is
\* inside the try, so on a stream that is not readable the lines are lost.
StdoutData ==
    /\ child = "running"
    /\ \E n \in 1..(Len(script) - wpos) :
          LET r == OnData(buffer, SubSeq(script, wpos + 1, wpos + n)) IN
          /\ buffer' = r.buffer
          /\ written' = IF CanEnqueue THEN written \o r.frames ELSE written
          /\ wpos' = wpos + n
    /\ UNCHANGED <<sessionVars, codecVars, realization, req, resp, child, script, ctrl, uncaught, upstream>>

\* route.ts 57-66: the flush of the 'close' handler
FlushParsed(buf) ==
    IF Trim(buf) # <<>> /\ IsJSON(Trim(buf)) THEN <<Frame(Trim(buf))>> ELSE <<>>
FlushNothing(buf) == <<>>
Flush(buf) == FlushParsed(buf)

\* route.ts 55-69: the child's 'close' event, after its stdout has ended.  The
\* sentinel's enqueue is outside any try: on a stream that is not readable the
\* handler ends in an uncaught TypeError.
ChildClose ==
    /\ child = "running"
    /\ wpos = Len(script)
    /\ child' = "closed"
    /\ IF CanEnqueue
       THEN /\ written' = written \o Flush(buffer) \o <<DoneFrame>>
            /\ ctrl' = "closed"
            /\ UNCHANGED uncaught
       ELSE /\ uncaught' = TRUE
            /\ UNCHANGED <<written, ctrl>>
    /\ UNCHANGED <<sessionVars, codecVars, realization, req, resp, script, wpos, buffer, upstream>>

\* route.ts 71-75: the child's 'error' event: the spawn failed
ChildError ==
    /\ child = "unspawned"
    /\ child' = "errored"
    /\ IF CanEnqueue
       THEN /\ written' = Append(written, SpawnErrorFrame)
            /\ ctrl' = "closed"
            /\ UNCHANGED uncaught
       ELSE /\ uncaught' = TRUE
            /\ UNCHANGED <<written, ctrl>>
    /\ UNCHANGED <<sessionVars, codecVars, realization, req, resp, script, wpos, buffer, upstream>>

\* route.ts 55-69: 'close' is emitted after 'error' too when the spawn failed;
\* the stream is closed or cancelled by then, so the sentinel's enqueue throws
ChildCloseAfterError ==
    /\ child = "errored"
    /\ child' = "erroredClosed"
    /\ IF CanEnqueue
       THEN /\ written' = written \o Flush(buffer) \o <<DoneFrame>>
            /\ ctrl' = "closed"
            /\ UNCHANGED uncaught
       ELSE /\ uncaught' = TRUE
            /\ UNCHANGED <<written, ctrl>>
    /\ UNCHANGED <<sessionVars, codecVars, realization, req, resp, script, wpos, buffer, upstream>>

\* route.ts 22-77: the stream is built with start() alone: when its consumer
\* goes away the stream is cancelled and nothing reaches the child.
\* route.ts 176: in the service realization the body is the upstream stream
\* itself, and its cancellation ends the upstream call.
StreamCancel ==
    /\ 1 \in aborted
    /\ ctrl = "open"
    /\ ctrl' = "cancelled"
    /\ upstream' = IF upstream = "open" THEN "cancelled" ELSE upstream
    /\ UNCHANGED <<sessionVars, codecVars, realization, req, resp, child, script, wpos, buffer, written,
                   uncaught>>

\* ----------------------------------------------- specification: pipeline
\* One job end to end: the client's request, the gateway that serves it (either
\* realization), the worker or the upstream service, and the client's reading of
\* the response.  Later jobs of the session only supersede it.
UrlInputs == {Absent, Some(<<>>), Some(<<"S">>), Some(<<"u">>)}

\* the maxPages member of a request body: omitted, or a number
MaxPagesInputs == {Absent, Some(0), Some(5), Some(0 - 1)}

\* route.ts 11, 25-30: the arguments the worker is spawned with; maxPages
\* defaults to 5 when the body has none
SpawnArgs ==
    [url |-> req.url,
     maxPages |-> IF req.maxPages = Absent THEN 5 ELSE req.maxPages[1]]

PipeInit ==
    /\ IdleSession
    /\ IdleCodec
    /\ realization \in {"process", "service"}
    /\ req = [url |-> Absent, maxPages |-> Absent]
    /\ resp = "none"
    /\ child = "none"
    /\ script = <<>>
    /\ wpos = 0
    /\ buffer = <<>>
    /\ written = <<>>
    /\ ctrl = "none"
    /\ uncaught = FALSE
    /\ upstream = "none"

\* useAnalysis.ts 54-58: the request body is JSON.stringify({url, maxPages});
\* route.ts 11: the gateway takes whatever body it is sent
PipeAnalyze ==
    /\ \E j \in Jobs :
          /\ AnalyzeCall(j)
          /\ IF j = 1
             THEN \E u \in UrlInputs, m \in MaxPagesInputs :
                     req' = [url |-> u, maxPages |-> m]
             ELSE UNCHANGED req
    /\ UNCHANGED <<body, rpos, decoder, sseBuffer, codecVars, realization, resp, child,
                   script, wpos, buffer, written, ctrl, uncaught, upstream>>

PipeReset ==
    /\ abortRef # 0
    /\ ResetCall
    /\ UNCHANGED <<body, rpos, decoder, sseBuffer, gatewayVars, codecVars>>

PipeAbortError ==
    /\ \E j \in Jobs : Cancelled(j)
    /\ UNCHANGED <<gatewayVars, codecVars>>

\* useAnalysis.ts 61-63: the 400 answer is not ok
PipeResponse ==
    /\ resp # "none"
    /\ IF resp = "400" THEN FetchFailed(1, <<"HTTP 400">>) ELSE FetchOk(1)
    /\ UNCHANGED <<body, rpos, decoder, sseBuffer, gatewayVars, codecVars>>

\* the bytes of the response body, and how the transport cuts them, are free
PipeRead ==
    /\ \E n \in 1..(Len(Flat(written)) - rpos[1]) : ReadValue(1, Flat(written), n)
    /\ UNCHANGED <<gatewayVars, codecVars>>

PipeReadEnd ==
    /\ ctrl = "closed"
    /\ rpos[1] = Len(Flat(written))
    /\ ReadDone(1)
    /\ UNCHANGED <<gatewayVars, codecVars>>

PipeNext ==
    \/ PipeAnalyze
    \/ PipeReset
    \/ PipeAbortError
    \/ PipeResponse
    \/ PipeRead
    \/ PipeReadEnd
    \/ PostRejected
    \/ PostSpawn
    \/ PostUpstreamFails
    \/ PostRelay
    \/ RelayChunk
    \/ RelayEnd
    \/ StdoutData
    \/ ChildClose
    \/ ChildError
    \/ ChildCloseAfterError
    \/ StreamCancel

PipeSpec == PipeInit /\ [][PipeNext]_vars

\* The steps the gateway's event loop takes on its own once they are due: the
\* request handler, the child's 'error' and 'close' after a failed spawn, and
\* the cancellation of the stream when the client has aborted.  The worker and
\* the upstream service are other programs: nothing makes them write or end,
\* and the user's calls are free.
Scheduled ==
    \/ PostRejected
    \/ PostSpawn
    \/ PostUpstreamFails
    \/ PostRelay
    \/ ChildError
    \/ ChildCloseAfterError
    \/ StreamCancel

FairPipeSpec == PipeInit /\ [][PipeNext]_vars /\ WF_vars(Scheduled)

\* ------------------------------------------------- specification: events
\* One job of the reducer fed any sequence of frames, recognized or not; each
\* read delivers one or more whole frames (cuts inside frames: the codecs).
EventPayloads ==
    {Obj("p"), Obj("g"), Obj("r"), Obj("e"), Obj("u"), Obj("z"), <<"0">>, <<"X">>,
     <<"!">>}

EventBodies ==
    {Flat(fs) : fs \in UNION {[1..n -> {Frame(x) : x \in EventPayloads}] :
                                 n \in 1..MaxEvents}}

\* the sizes of the chunks that end with a frame of the body b read up to from
FrameEnds(b, from) ==
    {n \in 1..(Len(b) - from) : from + n = Len(b) \/ b[from + n + 1] = "D"}

EventInit == IdleSession /\ IdleGateway /\ IdleCodec

EvAnalyze ==
    /\ AnalyzeCall(1)
    /\ UNCHANGED <<body, rpos, decoder, sseBuffer, gatewayVars, codecVars>>

EvReset ==
    /\ abortRef # 0
    /\ ResetCall
    /\ UNCHANGED <<body, rpos, decoder, sseBuffer, gatewayVars, codecVars>>

EvAbortError ==
    /\ Cancelled(1)
    /\ UNCHANGED <<gatewayVars, codecVars>>

EvResponse ==
    /\ \E b \in EventBodies :
          /\ FetchOk(1)
          /\ body' = [body EXCEPT ![1] = b]
    /\ UNCHANGED <<rpos, decoder, sseBuffer, gatewayVars, codecVars>>

EvRead ==
    /\ \E n \in FrameEnds(body[1], rpos[1]) : ReadValue(1, body[1], n)
    /\ UNCHANGED <<gatewayVars, codecVars>>

EvReadEnd ==
    /\ rpos[1] = Len(body[1])
    /\ ReadDone(1)
    /\ UNCHANGED <<gatewayVars, codecVars>>

EvReadRejects ==
    /\ ReadFailed(1)
    /\ UNCHANGED <<gatewayVars, codecVars>>

EventNext ==
    \/ EvAnalyze
    \/ EvReset
    \/ EvAbortError
    \/ EvResponse
    \/ EvRead
    \/ EvReadEnd
    \/ EvReadRejects

EventSpec == EventInit /\ [][EventNext]_vars

\* ------------------------------------------------- specification: labels
\* stageLabel alone, on stages in and out of the table and details with and
\* without a scheme, shorter and longer than the cut.
LabelStages == DOMAIN STAGE_LABELS \cup {"", "crawl", "constructor"}

Fill(n) == [i \in 1..n |-> "a"]

LabelDetails ==
    {Absent, Some(<<>>)}
        \cup {Some(p \o Fill(n)) :
                 p \in {<<>>, Http, Https, <<"x">> \o Http},
                 n \in {0, 1, LabelMax - 1, LabelMax, LabelMax + 1, LabelMax + 5}}

LabelInit ==
    /\ IdleSession
    /\ IdleGateway
    /\ cInput = <<>>
    /\ gwPos = 0 /\ gwBuffer = <<>> /\ gwFrames = <<>>
    /\ rdPos = 0 /\ rdDecoder = <<>> /\ rdBuffer = <<>> /\ rdFrames = <<>>
    /\ \E stage \in LabelStages, detail \in LabelDetails :
          labelStep = [stage |-> stage, detail |-> detail, label |-> Absent]

\* useAnalysis.ts 99-102
MakeStep ==
    /\ labelStep.label = Absent
    /\ labelStep' = [labelStep EXCEPT
                        !.label = Some(StageLabel(labelStep.stage, labelStep.detail))]
    /\ UNCHANGED <<sessionVars, gatewayVars, cInput, gwPos, gwBuffer, gwFrames,
                   rdPos, rdDecoder, rdBuffer, rdFrames>>

LabelNext == MakeStep

LabelSpec == LabelInit /\ [][LabelNext]_vars

\* ------------------------------------------------- specification: codecs
\* The two decoders alone, each fed the serialization of a sequence of
\* well-formed frames in chunks cut anywhere.
CodecRecords == {Obj("p"), <<"{", "g", "U", "}">>, Obj("r")}
CodecInputs == UNION {[1..n -> CodecRecords] : n \in 1..MaxFrames}

\* one record per line, as the worker writes them
RECURSIVE WorkerBytes(_)
WorkerBytes(records) ==
    IF records = <<>> THEN <<>>
    ELSE TextEncode(Head(records) \o <<"N">>) \o WorkerBytes(Tail(records))

\* one frame per record, as the gateway writes them
RECURSIVE TransportBytes(_)
TransportBytes(records) ==
    IF records = <<>> THEN <<>>
    ELSE Frame(Head(records)) \o TransportBytes(Tail(records))

CodecInit ==
    /\ IdleSession
    /\ IdleGateway
    /\ \E records \in CodecInputs :
          cInput = [gw |-> WorkerBytes(records), rd |-> TransportBytes(records)]
    /\ gwPos = 0 /\ gwBuffer = <<>> /\ gwFrames = <<>>
    /\ rdPos = 0 /\ rdDecoder = <<>> /\ rdBuffer = <<>> /\ rdFrames = <<>>
    /\ labelStep = [stage |-> "", detail |-> Absent, label |-> Absent]

\* route.ts 34-49 on the next n bytes
GatewayFeed ==
    /\ \E n \in 1..(Len(cInput.gw) - gwPos) :
          LET r == OnData(gwBuffer, SubSeq(cInput.gw, gwPos + 1, gwPos + n)) IN
          /\ gwFrames' = gwFrames \o r.frames
          /\ gwBuffer' = r.buffer
          /\ gwPos' = gwPos + n
    /\ UNCHANGED <<sessionVars, gatewayVars, cInput, rdPos, rdDecoder, rdBuffer, rdFrames,
                   labelStep>>

\* useAnalysis.ts 73-82 on the next n bytes
ReducerFeed ==
    /\ \E n \in 1..(Len(cInput.rd) - rdPos) :
          LET d == SseDecode(rdDecoder, rdBuffer, SubSeq(cInput.rd, rdPos + 1, rdPos + n)) IN
          /\ rdFrames' = rdFrames \o RawsOf(d.parts)
          /\ rdBuffer' = d.buffer
          /\ rdDecoder' = d.pending
          /\ rdPos' = rdPos + n
    /\ UNCHANGED <<sessionVars, gatewayVars, cInput, gwPos, gwBuffer, gwFrames, labelStep>>

CodecNext ==
    \/ GatewayFeed
    \/ ReducerFeed

CodecSpec == CodecInit /\ [][CodecNext]_vars

\* decoding the whole text at once
GatewayWhole == OnData(<<>>, cInput.gw).frames
ReducerWhole == RawsOf(SseDecode(<<>>, <<>>, cInput.rd).parts)

\* The reducer's decoder, fed every byte in any chunks, has decoded what one
\* call on the whole text decodes.
ReducerChunkInvariance == rdPos = Len(cInput.rd) => rdFrames = ReducerWhole

\* C6: for every sequence of well-formed frames and every cut of its
\* serialization into chunks, each decoder, once it has been fed every chunk,
\* has produced the frames that decoding the whole text at once produces.
ChunkInvariance ==
    /\ gwPos = Len(cInput.gw) => gwFrames = GatewayWhole
    /\ ReducerChunkInvariance

\* ======================================================= properties
IsPrefix(s, t) == Len(s) <= Len(t) /\ s = SubSeq(t, 1, Len(s))

\* ---------------------------------------------------------------- session
\* job j takes a step: its invocation moves on, or it reads
JobMoves(j) == pc'[j] # pc[j] \/ rpos'[j] # rpos[j]

\* what one job alone makes of a response body, from the state analyze() sets
BodyOutcome(b) == OnChunk(LoadingState, <<>>, <<>>, b).state

ProgressOnlyBody == Flat(<<Frame(Obj("g")), Frame(Obj("p"))>>)

\* a step of a job that a later analyze() has superseded leaves AnalysisState alone
SupersededJobsAreSilent ==
    \A j \in Jobs : (j < abortRef /\ JobMoves(j)) => state' = state

\* when the current job's stream ends, AnalysisState is what that job's events
\* alone produce
CurrentJobOnly ==
    \A j \in Jobs :
        (j = abortRef /\ j \notin aborted /\ pc[j] = "read" /\ pc'[j] = "done")
            => state' = BodyOutcome(body[j])

\* and it stays so until the next analyze() or reset()
SettledStateStays ==
    (abortRef # 0 /\ pc[abortRef] = "done"
       /\ abortRef' = abortRef /\ aborted' = aborted)
        => state' = state

\* C1: after analyze() is called for job B while job A is under way, no event
\* and no failure of job A changes AnalysisState, and when B's stream has ended
\* AnalysisState reflects B's events only.
Supersession ==
    [][SupersededJobsAreSilent /\ CurrentJobOnly /\ SettledStateStays]_vars

\* job 1 was superseded in the middle of its stream, after its first frame was
\* applied, and job 2 has run to the end of a stream carrying a result
SupersessionSeen ==
    /\ 1 \in aborted
    /\ pc[1] = "read"
    /\ body[1] = ProgressOnlyBody
    /\ rpos[1] > Len(Frame(Obj("g")))
    /\ rpos[1] < Len(body[1])
    /\ abortRef = 2
    /\ 2 \notin aborted
    /\ pc[2] = "done"
    /\ state.status = "complete"
    /\ Len(state.progressSteps) = 1

\* C2: from a reset() until the next analyze(), AnalysisState is the initial
\* state: idle, no progress steps, no result, no error, whatever the abandoned
\* job does.
ResetDuringLoad == (abortRef # 0 /\ abortRef \in aborted) => state = INITIAL_STATE

\* reset() came while job 1 was loading in the middle of its stream, after its
\* first frame was applied
ResetDuringLoadSeen ==
    /\ abortRef = 1
    /\ 1 \in aborted
    /\ pc[1] = "read"
    /\ body[1] = ProgressOnlyBody
    /\ rpos[1] > Len(Frame(Obj("g")))
    /\ rpos[1] < Len(body[1])
    /\ state = INITIAL_STATE

\* --------------------------------------------------------------- pipeline
\* C3: once the consumer of the outbound stream has gone, the worker spawned
\* for the request does not keep running: it is eventually terminated.
CancellationReleasesWorker ==
    (realization = "process" /\ ctrl = "cancelled" /\ child = "running")
        ~> (child # "running")

\* C4: when the worker cannot be spawned the outbound stream carries the error
\* frame, then the sentinel, and is closed.
WorkerStartFailure ==
    (child = "erroredClosed" /\ ctrl # "cancelled")
        => (written = <<SpawnErrorFrame, DoneFrame>> /\ ctrl = "closed")

\* C5: the sentinel is written only after the worker has ended, as the last
\* frame, and the stream is closed after it; and every run of the process
\* realization whose consumer stays ends that way, a failed spawn included.
SentinelLastOnce ==
    realization = "process" =>
        /\ \A i \in 1..Len(written) :
              written[i] = DoneFrame =>
                 /\ i = Len(written)
                 /\ child \in {"closed", "erroredClosed"}
                 /\ ctrl = "closed"
        /\ (child \in {"closed", "erroredClosed"} /\ ctrl # "cancelled")
              => (written # <<>> /\ Last(written) = DoneFrame /\ ctrl = "closed")

\* the text the worker has written so far, and all it writes
Emitted == BufferToString(SubSeq(script, 1, wpos))
AllOutput == BufferToString(script)

\* the progress steps of the records among the lines
RECURSIVE StepsOfLines(_)
StepsOfLines(lines) ==
    IF lines = <<>> THEN <<>>
    ELSE LET t == Trim(Head(lines))
             e == JSONParse(t) IN
         (IF IsJSON(t) /\ ~e.isNull /\ e.type = "progress"
          THEN <<[stage |-> e.stage[1], detail |-> e.detail,
                  label |-> StageLabel(e.stage[1], e.detail)]>>
          ELSE <<>>)
         \o StepsOfLines(Tail(lines))

\* the frames of the process realization are the parseable records of the
\* worker's complete lines, in order; with the worker ended, of all its output
GatewayKeepsOrder ==
    realization = "process" =>
        /\ (child = "running" /\ ctrl = "open")
              => written = FramesOfLines(Front(SplitLines(Emitted)))
        /\ (child = "closed" /\ ctrl = "closed")
              => written = FramesOfLines(SplitLines(AllOutput)) \o <<DoneFrame>>

\* the job's progress steps are the leading progress records of the worker,
\* and all of them once the job has read its stream to the end
ReducerKeepsOrder ==
    (realization = "process" /\ abortRef = 1 /\ 1 \notin aborted)
        => /\ IsPrefix(state.progressSteps, StepsOfLines(SplitLines(AllOutput)))
           /\ pc[1] = "done"
                 => state.progressSteps = StepsOfLines(SplitLines(AllOutput))

PayloadOf(chunk) == BufferToString(SubSeq(chunk, 2, Len(chunk) - 2))

ParseableLines(lines) == {i \in 1..Len(lines) : IsJSON(Trim(lines[i]))}

\* every frame written carries JSON, and there is one frame per complete line
\* that parses: lines that do not parse, and blank lines, give none
GatewayDropsOnlyGarbage ==
    (realization = "process" /\ child = "running" /\ ctrl = "open") =>
        /\ \A i \in 1..Len(written) : IsJSON(PayloadOf(written[i]))
        /\ Len(written) = Cardinality(ParseableLines(Front(SplitLines(Emitted))))

\* the parts a read of job 1 completes
PartsRead ==
    SseDecode(decoder[1], sseBuffer[1],
              SubSeq(Flat(written), rpos[1] + 1, rpos'[1])).parts

\* a read whose frames all fail to parse changes nothing
ReducerDropsGarbage ==
    (rpos'[1] > rpos[1]
       /\ \A i \in 1..Len(PartsRead) :
             ~HasDataLine(PartsRead[i]) \/ ~IsJSON(Raw(PartsRead[i])))
        => state' = state

\* C8: a worker line or transport frame that does not parse as JSON is
\* dropped, with no frame and no state change; the records around it are
\* delivered; empty and blank lines are ignored.
FaultIsolation == []GatewayDropsOnlyGarbage /\ [][ReducerDropsGarbage]_vars

\* the worker wrote a record, a line that is no JSON and another record; the
\* stream carries the two records' frames
FaultIsolationSeen ==
    /\ realization = "process"
    /\ child = "running" /\ ctrl = "open"
    /\ script = Obj("p") \o <<"N", "X", "N">> \o Obj("g") \o <<"N">>
    /\ wpos = Len(script)
    /\ written = <<Frame(Obj("p")), Frame(Obj("g"))>>

\* C9: when the worker ends with an unterminated last line, the gateway parses
\* it once: if it is JSON its frame is written just before the sentinel, and
\* if not, nothing is written for it and the sentinel still is.
TrailingFragmentFlush ==
    (realization = "process" /\ child = "closed" /\ ctrl = "closed") =>
        LET lines == SplitLines(AllOutput)
            fragment == Trim(Last(lines))
            complete == Cardinality(ParseableLines(Front(lines))) IN
        /\ Last(written) = DoneFrame
        /\ IF fragment # <<>> /\ IsJSON(fragment)
           THEN /\ Len(written) = complete + 2
                /\ written[Len(written) - 1] = Frame(fragment)
           ELSE Len(written) = complete + 1

\* the worker ended on a result record without its newline
TrailingFragmentSeen ==
    /\ realization = "process" /\ child = "closed" /\ ctrl = "closed"
    /\ Last(SplitLines(AllOutput)) = Obj("r")
    /\ written = <<Frame(Obj("p")), Frame(Obj("r")), DoneFrame>>

\* C10: a request without url, or with the empty string, gets the 400 answer:
\* no stream is opened, no worker spawned and no upstream call made.
ValidationShortCircuit ==
    (pc[1] # "idle" /\ (req.url = Absent \/ req.url = Some(<<>>)))
        => /\ resp \in {"none", "400"}
           /\ ctrl = "none"
           /\ child = "none"
           /\ upstream = "none"
           /\ written = <<>>

\* the empty url was answered with 400, and the client has seen it
ValidationSeen ==
    /\ req.url = Some(<<>>)
    /\ resp = "400"
    /\ pc[1] = "failed"
    /\ state.error = Some(<<"HTTP 400">>)

\* C11: a worker is started only for a valid request: url not empty after
\* trimming, maxPages an integer >= 0; with maxPages omitted the worker gets 5.
ValidRequestsOnly ==
    (realization = "process" /\ child # "none") =>
        /\ SpawnArgs.url # Absent
        /\ Trim(SpawnArgs.url[1]) # <<>>
        /\ SpawnArgs.maxPages >= 0
        /\ req.maxPages = Absent => SpawnArgs.maxPages = 5

\* C17: at most one analyze() invocation holds a controller that is not
\* aborted and can apply events, the one abortRef stores; and analyze() aborts
\* the stored controller before it installs its own.
SingleActiveJob ==
    /\ [](\A j \in Jobs : (pc[j] \in {"fetch", "read"} /\ j \notin aborted)
                               => j = abortRef)
    /\ [][(abortRef' # abortRef /\ abortRef # 0) => abortRef \in aborted']_vars

\* job 2 reads its stream while job 1, aborted in the middle of its own, has
\* not yet returned
SingleActiveJobSeen ==
    /\ abortRef = 2
    /\ aborted = {1}
    /\ pc[1] = "read" /\ rpos[1] > 0
    /\ pc[2] = "read" /\ rpos[2] > 0

\* C18: cancellation is silent: the abort of a cancelled job's fetch or read
\* changes nothing, and no analyze() or reset() leaves status Error or an
\* error message.
CancellationSilent ==
    [][/\ \A j \in Jobs :
             (pc[j] \in {"fetch", "read"} /\ pc'[j] = "cancelled") => state' = state
       /\ (abortRef' # abortRef \/ aborted' # aborted)
             => (state'.status # "error" /\ state'.error = Absent)]_vars

\* job 1 was superseded and has returned from its catch; job 2 is loading,
\* with a step of its own
CancellationSilentSeen ==
    /\ abortRef = 2
    /\ aborted = {1}
    /\ pc[1] = "cancelled"
    /\ pc[2] = "read"
    /\ state.status = "loading"
    /\ Len(state.progressSteps) = 1
    /\ state.error = Absent

\* C19: analyze() in any status yields Loading with no progress steps, no
\* result and no error.
AnalyzeFromAnyStatus ==
    [][abortRef' # abortRef =>
          /\ state'.status = "loading"
          /\ state'.progressSteps = <<>>
          /\ state'.result = Absent
          /\ state'.error = Absent]_vars

\* analyze() was called after job 1 had ended with an error
AnalyzeFromAnyStatusSeen ==
    /\ pc[1] = "failed"
    /\ 1 \in aborted
    /\ abortRef = 2
    /\ pc[2] = "fetch"
    /\ state = LoadingState

\* C20: reset() in any status aborts the stored controller, if any, and
\* yields the initial state: Idle, no steps, empty currentStage, no result, no
\* error.
ResetFromAnyStatus ==
    [][(abortRef' = abortRef /\ aborted' # aborted) =>
          /\ abortRef \in aborted'
          /\ state'.status = "idle"
          /\ state'.progressSteps = <<>>
          /\ state'.currentStage = <<>>
          /\ state'.result = Absent
          /\ state'.error = Absent]_vars

\* reset() was called after job 1 had read its stream to the end
ResetFromAnyStatusSeen ==
    /\ abortRef = 1
    /\ 1 \in aborted
    /\ pc[1] = "done"
    /\ state = INITIAL_STATE

\* C21: a failure of the current job that is no cancellation (response not ok,
\* fetch or read rejected, exception while applying an event) sets status
\* Error and an error message; only the current job can fail so, and a step of
\* a job that was superseded or reset changes nothing.
FailureIsLocal ==
    [][\A j \in Jobs :
          /\ (pc[j] \in {"fetch", "read"} /\ pc'[j] = "failed")
                => /\ j = abortRef
                   /\ j \notin aborted
                   /\ state'.status = "error"
                   /\ state'.error # Absent
          /\ (j \in aborted /\ JobMoves(j)) => state' = state]_vars

\* job 1 ended in a failure; the analyze() after it has read its stream to
\* the end and is Complete, with no error left
FailureIsLocalSeen ==
    /\ pc[1] = "failed"
    /\ abortRef = 2
    /\ 2 \notin aborted
    /\ pc[2] = "done"
    /\ state.status = "complete"
    /\ state.error = Absent

\* ----------------------------------------------------------------- events
\* job 1 is reading its stream
Reading == pc[1] = "read" /\ 1 \notin aborted

\* the next n bytes of job 1's stream, and AnalysisState after the read that
\* delivers them
NextChunk(n) == SubSeq(body[1], rpos[1] + 1, rpos[1] + n)
StateAfter(n) == OnChunk(state, decoder[1], sseBuffer[1], NextChunk(n)).state

\* the step is neither analyze() nor reset()
JobGoesOn == abortRef' = abortRef /\ aborted' = aborted

\* C12: within one job, once status is Complete it never becomes Error, and
\* once it is Error it never becomes Complete.
OneTerminalStatus ==
    [][JobGoesOn =>
          /\ state.status = "complete" => state'.status # "error"
          /\ state.status = "error" => state'.status # "complete"]_vars

\* C13: a Result event sets result to its payload, clears error and sets
\* status Complete, whatever the state before it.
ResultClearsError ==
    Reading =>
        \A n \in FrameEnds(body[1], rpos[1]) :
            NextChunk(n) = Frame(Obj("r")) =>
                /\ StateAfter(n).result = JSONParse(Obj("r")).data
                /\ StateAfter(n).error = Absent
                /\ StateAfter(n).status = "complete"

\* C14: an Error event sets error to its message and status Error, and in
\* every state with status Error the result is absent.
ErrorLeavesNoResult ==
    /\ Reading =>
          \A n \in FrameEnds(body[1], rpos[1]) :
              NextChunk(n) = Frame(Obj("e")) =>
                  /\ StateAfter(n).error = JSONParse(Obj("e")).message
                  /\ StateAfter(n).status = "error"
    /\ state.status = "error" => state.result = Absent

\* a frame's payload is a well-formed Progress, Result or Error event
Recognized(part) ==
    /\ HasDataLine(part)
    /\ IsJSON(Raw(part))
    /\ ~JSONParse(Raw(part)).isNull
    /\ \/ JSONParse(Raw(part)).type \in {"progress", "error"}
       \/ JSONParse(Raw(part)).type = "result" /\ JSONParse(Raw(part)).data # Absent

\* C15: frames whose payload is no well-formed Progress, Result or Error event
\* (not JSON, null, unknown type, result without data) leave AnalysisState
\* unchanged.
UnrecognizedFramesChangeNothing ==
    Reading =>
        \A n \in FrameEnds(body[1], rpos[1]) :
            (\A part \in {SplitBlank(NextChunk(n))[i] :
                             i \in 1..Len(SplitBlank(NextChunk(n)))} :
                 ~Recognized(part))
                => StateAfter(n) = state

\* the step a Progress payload stands for
StepOf(payload) ==
    LET e == JSONParse(payload)
        stage == IF e.stage = Absent THEN "" ELSE e.stage[1] IN
    [stage |-> stage, detail |-> e.detail, label |-> StageLabel(stage, e.detail)]

\* C16: within one job progressSteps only grows at its end: a Progress event
\* appends its step and makes its label the currentStage, and no other event
\* or failure of the job touches the steps there are.
ProgressAppendOnly ==
    [][JobGoesOn =>
          /\ IsPrefix(state.progressSteps, state'.progressSteps)
          /\ \A k \in {"p", "g"} :
                (Reading /\ pc'[1] = "read" /\ rpos'[1] > rpos[1]
                   /\ SubSeq(body[1], rpos[1] + 1, rpos'[1]) = Frame(Obj(k)))
                    => /\ state'.progressSteps
                            = Append(state.progressSteps, StepOf(Obj(k)))
                       /\ state'.currentStage = StepOf(Obj(k)).label]_vars

\* two Progress events were applied, then an Error event: the steps are there
ProgressAppendOnlySeen ==
    /\ pc[1] = "read"
    /\ body[1] = Flat(<<Frame(Obj("g")), Frame(Obj("p")), Frame(Obj("e"))>>)
    /\ rpos[1] = Len(body[1])
    /\ state.status = "error"
    /\ state.progressSteps = <<StepOf(Obj("g")), StepOf(Obj("p"))>>
    /\ state.currentStage = StepOf(Obj("p")).label

\* the frames of the response body, and the text left after the last of them
ResponseParts == SplitBlank(BufferToString(Flat(written)))

\* C22: when the upstream service cannot be reached, or answers not ok or
\* without a body, the response body is one Error frame, then the sentinel
\* frame, and nothing else.
UpstreamFailureBody ==
    (realization = "service" /\ upstream \in {"unreachable", "notok"}) =>
        /\ ctrl = "closed"
        /\ Len(ResponseParts) = 3
        /\ IsJSON(Raw(ResponseParts[1]))
        /\ JSONParse(Raw(ResponseParts[1])).type = "error"
        /\ JSONParse(Raw(ResponseParts[1])).message =
              (IF upstream = "unreachable"
               THEN Some(<<"Analysis service unavailable">>)
               ELSE Some(<<"Service error: 500">>))
        /\ Raw(ResponseParts[2]) = <<"!">>
        /\ ResponseParts[3] = <<>>

\* the upstream service answered 500, and the job has read the whole response
UpstreamFailureBodySeen ==
    /\ realization = "service"
    /\ upstream = "notok"
    /\ pc[1] = "done"
    /\ abortRef = 1 /\ 1 \notin aborted
    /\ state.status = "error"
    /\ state.error = Some(<<"Service error: 500">>)

\* what a frame delivers to the reducer: the sentinel, an event of some type,
\* or nothing
FrameKind(part) ==
    IF ~HasDataLine(part) THEN "none"
    ELSE IF Raw(part) = <<"!">> THEN "sentinel"
    ELSE IF IsJSON(Raw(part)) /\ ~JSONParse(Raw(part)).isNull
         THEN JSONParse(Raw(part)).type
    ELSE "none"

\* the sequence a response body delivers
Delivered(bytes) ==
    LET parts == Front(SplitBlank(BufferToString(bytes))) IN
    [i \in 1..Len(parts) |-> FrameKind(parts[i])]

\* C23: for the same worker behaviour the two realizations deliver the same
\* sequence of events ended by the sentinel; in particular, when the worker
\* cannot be started, the process realization delivers what the service
\* realization delivers when its service cannot be reached.
RealizationsEquivalent ==
    (realization = "process" /\ child = "erroredClosed" /\ ctrl = "closed")
        => Delivered(Flat(written)) = Delivered(UnavailableBody)

\* job 1 has read the sentinel frame
SentinelRead == \E i \in 1..rpos[1] : body[1][i] = "!"

\* C24: the sentinel is the end of the stream for the reducer: reading the
\* frame `data: [DONE]` changes nothing, and no frame after it in the same
\* stream is applied.
SentinelEndsStream ==
    Reading =>
        \A n \in FrameEnds(body[1], rpos[1]) :
            /\ NextChunk(n) = DoneFrame => StateAfter(n) = state
            /\ SentinelRead => StateAfter(n) = state

\* a handler of the child calls controller.enqueue in this step: the 'error'
\* and 'close' handlers always do, the 'data' handler for each line that parses
EnqueueCalled ==
    \/ child' # child /\ child' \in {"closed", "errored", "erroredClosed"}
    \/ /\ wpos' > wpos
       /\ OnData(buffer, SubSeq(script, wpos + 1, wpos')).frames # <<>>

\* C26: the process realization never writes to a stream that is closed or
\* cancelled: no handler calls enqueue (or close) on such a controller.
WritesOnlyWhileOpen ==
    [][(realization = "process" /\ ctrl \in {"closed", "cancelled"})
          => ~EnqueueCalled]_vars

\* C27: when the stream of the current job has ended and the job was neither
\* reset nor superseded, its analyze() leaves status Complete or Error, never
\* Loading, also when the worker emitted no Result and no Error record.
JobEndsSettled ==
    \A j \in Jobs :
        (j = abortRef /\ j \notin aborted /\ pc[j] = "done")
            => state.status \in {"complete", "error"}

\* C28: in every reachable AnalysisState, Idle has no steps, no result and no
\* error; Loading has no result and no error; Complete has a result; Error
\* has an error.
StatusFieldConsistency ==
    /\ state.status = "idle"
          => state.progressSteps = <<>> /\ state.result = Absent /\ state.error = Absent
    /\ state.status = "loading" => state.result = Absent /\ state.error = Absent
    /\ state.status = "complete" => state.result # Absent
    /\ state.status = "error" => state.error # Absent

\* a progress event, an error event and then a result event were applied
StatusFieldConsistencySeen ==
    /\ state.status = "complete"
    /\ state.error # Absent
    /\ state.progressSteps # <<>>

\* a blank line of the response body ends within the chunk job 1 reads in this
\* step
TerminatorArrives ==
    \E i \in (rpos[1] + 1)..rpos'[1] :
        i >= 2 /\ Flat(written)[i - 1] = "N" /\ Flat(written)[i] = "N"

\* C29: the reducer changes AnalysisState on a chunk only if a blank-line
\* terminator arrived with it, and the text left in sseBuffer when the stream
\* ends is dropped without changing AnalysisState.
TerminatorRequired ==
    [][/\ (pc[1] = "read" /\ rpos'[1] > rpos[1] /\ state' # state)
            => TerminatorArrives
       /\ (pc[1] = "read" /\ pc'[1] = "done" /\ sseBuffer[1] # <<>>)
            => state' = state]_vars

\* the relayed body ended with a result frame that had no terminator: the job
\* returned and the result was never applied
TerminatorRequiredSeen ==
    /\ realization = "service"
    /\ script = UnterminatedBody
    /\ pc[1] = "done"
    /\ abortRef = 1 /\ 1 \notin aborted
    /\ state.status = "loading"
    /\ Len(state.progressSteps) = 1

\* ----------------------------------------------------------------- labels
\* the label the claim gives a step
LabelAsClaimed(stage, detail, label) ==
    IF stage = "page" /\ detail # Absent /\ detail[1] # <<>>
    THEN \E scheme \in {<<>>, Http, Https} :
            /\ StartsWith(detail[1], scheme)
            /\ scheme = <<>> => (~StartsWith(detail[1], Http)
                                  /\ ~StartsWith(detail[1], Https))
            /\ scheme = Http => ~StartsWith(detail[1], Https)
            /\ Len(label) <= 1 + LabelMax
            /\ Len(label) = 1 + LabelMax \/ Len(label) = 1 + Len(detail[1]) - Len(scheme)
            /\ label[1] = "Analyzing: "
            /\ \A i \in 2..Len(label) : label[i] = detail[1][Len(scheme) + i - 1]
    ELSE IF stage \in DOMAIN STAGE_LABELS THEN label = <<STAGE_LABELS[stage]>>
    ELSE label = <<stage>>

\* C25: for stage "page" with a detail that is not empty the label is
\* "Analyzing: " and the detail without a leading http:// or https://, cut to
\* 55 characters; for every other step it is the stage's phrase in the table,
\* or the stage name when the table has none.
LabelDerivation ==
    labelStep.label # Absent
        => LabelAsClaimed(labelStep.stage, labelStep.detail, labelStep.label[1])

\* the same for stages that are no member names of Object.prototype
LabelDerivationOwnKeys ==
    (labelStep.label # Absent /\ labelStep.stage \notin ObjectPrototype)
        => LabelAsClaimed(labelStep.stage, labelStep.detail, labelStep.label[1])

====
